---- MODULE Spec2Model ----
(***************************************************************************)
(* Model of the OpenAI-chat -> image-generation adapter (src/sf-adapter.ts) *)
(* Strings the code inspects (trim, startsWith, includes, JSON escaping)   *)
(* are sequences of one-character strings; strings the code only compares  *)
(* for equality (roles, type tags, URLs of the endpoints) are TLA+ strings.*)
(***************************************************************************)
EXTENDS Integers, Sequences, FiniteSets, TLC

VARIABLES env, pc, req, requestBody, payload, provider, apiKey, outbound,
          fetched, normalizer, response

vars == <<env, pc, req, requestBody, payload, provider, apiKey, outbound,
          fetched, normalizer, response>>

(***************************************************************************)
(* Bounds of the message histories explored by SpecExtract.                *)
(***************************************************************************)
MaxMsgs == 2
MaxChunks == 3

(***************************************************************************)
(* String primitives of the JavaScript runtime used by the code.           *)
(***************************************************************************)
StartsWith(s, p) == Len(s) >= Len(p) /\ SubSeq(s, 1, Len(p)) = p

Includes(s, sub) ==
  \E i \in 1..(Len(s) + 1) :
     i + Len(sub) - 1 <= Len(s) /\ SubSeq(s, i, i + Len(sub) - 1) = sub

IsSpace(c) == c \in {" ", "\t", "\n"}

RECURSIVE TrimStart(_)
TrimStart(s) ==
  IF s = <<>> THEN <<>>
  ELSE IF IsSpace(Head(s)) THEN TrimStart(Tail(s)) ELSE s

RECURSIVE TrimEnd(_)
TrimEnd(s) ==
  IF s = <<>> THEN <<>>
  ELSE IF IsSpace(s[Len(s)]) THEN TrimEnd(SubSeq(s, 1, Len(s) - 1)) ELSE s

Trim(s) == TrimEnd(TrimStart(s))

(***************************************************************************)
(* Chat messages and content chunks (type ChatMessage).  The *Ty fields    *)
(* carry what typeof reports for the corresponding JSON value.             *)
(***************************************************************************)
S_data == <<"d", "a", "t", "a", ":">>

Chunk(type, textTy, text, imgTy, urlTy, url) ==
  [type |-> type, textTy |-> textTy, text |-> text,
   imgTy |-> imgTy, urlTy |-> urlTy, url |-> url]

TextChunk(s) == Chunk("text", "string", s, "undefined", "undefined", <<>>)
ImageChunk(u) == Chunk("image_url", "undefined", <<>>, "object", "string", u)

Message(role, cty, str, arr) ==
  [role |-> role, cty |-> cty, str |-> str, arr |-> arr]

UserString(s) == Message("user", "string", s, <<>>)
UserArray(cs) == Message("user", "array", <<>>, cs)

(***************************************************************************)
(* coerceMessagePayload: the Message Interpreter.                          *)
(***************************************************************************)
NewPayload == [threw |-> FALSE, prompt |-> <<>>, dataUrls |-> <<>>,
               httpImages |-> <<>>]

WellFormedImage(chunk) ==
  /\ chunk.type = "image_url"
  /\ chunk.imgTy \in {"object", "null"}
  /\ chunk.imgTy # "null"
  /\ chunk.urlTy = "string"

\* ProcessChunk with the data: test dropped: every image goes to httpImages.
ProcessChunkUnclassified(p, chunk) ==
  LET p1 == IF chunk.type = "text" /\ chunk.textTy = "string"
            THEN [p EXCEPT !.prompt = Trim(chunk.text)]
            ELSE p
  IN IF WellFormedImage(chunk)
     THEN [p1 EXCEPT !.httpImages = Append(@, chunk.url)]
     ELSE p1

ProcessChunk(p, chunk) ==
  LET p1 == IF chunk.type = "text" /\ chunk.textTy = "string"
            THEN [p EXCEPT !.prompt = Trim(chunk.text)]
            ELSE p
  IN IF WellFormedImage(chunk)
     THEN IF StartsWith(chunk.url, S_data)
          THEN [p1 EXCEPT !.dataUrls = Append(@, chunk.url)]
          ELSE [p1 EXCEPT !.httpImages = Append(@, chunk.url)]
     ELSE p1

RECURSIVE ProcessChunks(_, _, _)
ProcessChunks(p, chunks, j) ==
  IF j > Len(chunks) THEN p
  ELSE ProcessChunks(ProcessChunk(p, chunks[j]), chunks, j + 1)

\* ProcessContent with the trim of string content dropped.
ProcessContentUntrimmed(p, m) ==
  IF m.cty = "string" THEN [p EXCEPT !.prompt = m.str]
  ELSE IF m.cty = "array" THEN ProcessChunks(p, m.arr, 1)
  ELSE p

ProcessContent(p, m) ==
  IF m.cty = "string" THEN [p EXCEPT !.prompt = Trim(m.str)]
  ELSE IF m.cty = "array" THEN ProcessChunks(p, m.arr, 1)
  ELSE p

RECURSIVE ScanMessages(_, _, _)
\* The scan without the break after a message that left a prompt.
ScanMessagesNoBreak(p, messages, i) ==
  IF i < 1 THEN p
  ELSE IF messages[i].role # "user" THEN ScanMessages(p, messages, i - 1)
  ELSE ScanMessages(ProcessContent(p, messages[i]), messages, i - 1)

ScanMessages(p, messages, i) ==
  IF i < 1 THEN p
  ELSE IF messages[i].role # "user" THEN ScanMessages(p, messages, i - 1)
  ELSE LET p2 == ProcessContent(p, messages[i])
       IN IF p2.prompt # <<>> THEN p2
          ELSE ScanMessages(p2, messages, i - 1)

\* coerceMessagePayload with the final throw dropped.
coerceMessagePayloadNoThrow(messages) ==
  ScanMessages(NewPayload, messages, Len(messages))

coerceMessagePayload(messages) ==
  LET p == ScanMessages(NewPayload, messages, Len(messages))
  IN IF p.prompt = <<>>
     THEN [threw |-> TRUE, prompt |-> <<>>, dataUrls |-> <<>>,
           httpImages |-> <<>>]
     ELSE p

(***************************************************************************)
(* JavaScript numbers.  A finite number is k * 10^9 + u + t / 10 with      *)
(* 0 <= u < 10^9 and 0 <= t <= 9, so that the seed bound 9_999_999_999 and *)
(* the fractional bound 0.1 are both exact; nan is the NaN value.          *)
(***************************************************************************)
Dec(w, t) == [nan |-> FALSE, k |-> w \div 1000000000, u |-> w % 1000000000,
              t |-> t]
Whole(w) == Dec(w, 0)
Big(k, u) == [nan |-> FALSE, k |-> k, u |-> u, t |-> 0]
NaN == [nan |-> TRUE, k |-> 0, u |-> 0, t |-> 0]

NumLeq(a, b) ==
  \/ a.k < b.k
  \/ a.k = b.k /\ a.u < b.u
  \/ a.k = b.k /\ a.u = b.u /\ a.t <= b.t

MathMin(a, b) == IF a.nan \/ b.nan THEN NaN ELSE IF NumLeq(a, b) THEN a ELSE b
MathMax(a, b) == IF a.nan \/ b.nan THEN NaN ELSE IF NumLeq(a, b) THEN b ELSE a

clamp(value, min, max) == MathMax(min, MathMin(max, value))

(***************************************************************************)
(* JSON values of the optional request fields: ty is what typeof reports.  *)
(***************************************************************************)
Undefined == [ty |-> "undefined", num |-> Whole(0), str |-> <<>>]
NumV(x) == [ty |-> "number", num |-> x, str |-> <<>>]
StrV(s) == [ty |-> "string", num |-> Whole(0), str |-> s]
ObjV(s) == [ty |-> "object", num |-> Whole(0), str |-> s]

Truthy(v) ==
  CASE v.ty = "number" -> ~v.num.nan /\ v.num # Whole(0)
    [] v.ty = "string" -> v.str # <<>>
    [] v.ty = "object" -> TRUE
    [] OTHER -> FALSE

Digits == <<"0", "1", "2", "3", "4", "5", "6", "7", "8", "9">>

\* ToNumber as applied by Math.min to its arguments.
ToNumber(v) ==
  CASE v.ty = "number" -> v.num
    [] v.ty = "string" /\ v.str = <<>> -> Whole(0)
    [] v.ty = "string" /\ Len(v.str) = 1
         /\ (\E d \in 1..10 : Digits[d] = v.str[1]) ->
         Whole((CHOOSE d \in 1..10 : Digits[d] = v.str[1]) - 1)
    [] OTHER -> NaN

\* a ?? b
Coalesce(v, default) == IF v.ty = "undefined" THEN default ELSE v.str

(***************************************************************************)
(* detectProvider                                                          *)
(***************************************************************************)
S_Qwen == <<"Q", "w", "e", "n", "/">>
S_Kolors == <<"K", "w", "a", "i", "-", "K", "o", "l", "o", "r", "s", "/">>
S_siliconflow == <<"s", "i", "l", "i", "c", "o", "n", "f", "l", "o", "w">>

\* detectProvider without the substring test.
detectProviderPrefixOnly(model) ==
  IF ~Truthy(model) THEN "ark"
  ELSE IF \/ StartsWith(model.str, S_Qwen)
          \/ StartsWith(model.str, S_Kolors)
       THEN "siliconflow"
       ELSE "ark"

detectProvider(model) ==
  IF ~Truthy(model) THEN "ark"
  ELSE IF \/ StartsWith(model.str, S_Qwen)
          \/ StartsWith(model.str, S_Kolors)
          \/ Includes(model.str, S_siliconflow)
       THEN "siliconflow"
       ELSE "ark"

(***************************************************************************)
(* callArk and callSiliconFlow: the provider request bodies.               *)
(***************************************************************************)
ARK_API_URL == "https://ark.cn-beijing.volces.com/api/v3/images/generations"
SILICONFLOW_API_URL == "https://api.siliconflow.cn/v1/images/generations"

ARK_DEFAULT_MODEL == <<"d", "o", "u", "b", "a", "o", "-", "s", "e", "e", "d", "r", "e", "a", "m", "-", "4", "-", "0", "-", "2", "5", "0", "8", "2", "8">>
SILICONFLOW_DEFAULT_MODEL == <<"Q", "w", "e", "n", "/", "Q", "w", "e", "n", "-", "I", "m", "a", "g", "e">>
S_1024 == <<"1", "0", "2", "4", "x", "1", "0", "2", "4">>
S_1328 == <<"1", "3", "2", "8", "x", "1", "3", "2", "8">>

\* const n = requestBody.n ? clamp(requestBody.n, 1, 4) : undefined
ArkCount(rb) ==
  IF Truthy(rb.n) THEN NumV(clamp(ToNumber(rb.n), Whole(1), Whole(4)))
  ELSE Undefined

ArkRequest(rb, pl) ==
  LET n == ArkCount(rb)
  IN [model |-> Coalesce(rb.model, ARK_DEFAULT_MODEL),
      prompt |-> pl.prompt,
      image |-> pl.httpImages,
      sequential_image_generation |->
        IF Truthy(n) THEN "auto" ELSE "disabled",
      response_format |-> "b64_json",
      size |-> IF rb.size.ty = "string" THEN rb.size.str ELSE S_1024,
      seed |-> IF rb.seed.ty = "number" THEN rb.seed.num ELSE Whole(-1),
      stream |-> FALSE,
      watermark |-> FALSE,
      sequential_image_generation_options |->
        IF Truthy(n) THEN [present |-> TRUE, max_images |-> n.num]
        ELSE [present |-> FALSE, max_images |-> Whole(0)]]

\* The batch size taken from the request without saturation.
BatchSizeUnclamped(rb) ==
  IF rb.n.ty = "number" THEN rb.n.num ELSE Whole(1)

\* clamp(typeof requestBody.n === "number" ? requestBody.n : 1, 1, 4)
BatchSize(rb) ==
  clamp(IF rb.n.ty = "number" THEN rb.n.num ELSE Whole(1), Whole(1), Whole(4))

\* Numeric passthrough without saturation.
PassIfNumber(v, min, max) ==
  IF v.ty = "number" THEN NumV(v.num) ELSE Undefined

ClampIfNumber(v, min, max) ==
  IF v.ty = "number" THEN NumV(clamp(v.num, min, max)) ELSE Undefined

SiliconFlowImageSize(rb, model) ==
  LET overrideSize == IF rb.size.ty = "string" THEN rb.size
                      ELSE IF rb.image_size.ty = "string" THEN rb.image_size
                      ELSE Undefined
  IN Coalesce(overrideSize,
              IF StartsWith(model, S_Kolors) THEN S_1024 ELSE S_1328)

\* A reference image taken from the remote URLs when no embedded one exists.
SiliconFlowReferenceImageAny(pl) ==
  IF Len(pl.dataUrls) > 0 THEN StrV(pl.dataUrls[1])
  ELSE IF Len(pl.httpImages) > 0 THEN StrV(pl.httpImages[1])
  ELSE Undefined

SiliconFlowReferenceImage(pl) ==
  IF Len(pl.dataUrls) > 0 THEN StrV(pl.dataUrls[1]) ELSE Undefined

SiliconFlowRequest(rb, pl) ==
  LET model == Coalesce(rb.model, SILICONFLOW_DEFAULT_MODEL)
      negative == IF rb.negative_prompt.ty = "string"
                  THEN rb.negative_prompt ELSE Undefined
  IN [model |-> model,
      prompt |-> pl.prompt,
      batch_size |-> BatchSize(rb),
      image_size |-> SiliconFlowImageSize(rb, model),
      negative_prompt |-> IF Truthy(negative) THEN negative ELSE Undefined,
      seed |-> ClampIfNumber(rb.seed, Whole(0), Big(9, 999999999)),
      num_inference_steps |->
        ClampIfNumber(rb.num_inference_steps, Whole(1), Whole(100)),
      guidance_scale |-> ClampIfNumber(rb.guidance_scale, Whole(0), Whole(20)),
      cfg |-> ClampIfNumber(rb.cfg, Dec(0, 1), Whole(20)),
      image |-> SiliconFlowReferenceImage(pl)]

(***************************************************************************)
(* Request bodies (interface OpenAIRequest) and the idle values of the     *)
(* handler's locals.                                                       *)
(***************************************************************************)
Body(messagesTy, messages) ==
  [messagesTy |-> messagesTy, messages |-> messages, model |-> Undefined,
   n |-> Undefined, size |-> Undefined, seed |-> Undefined,
   image_size |-> Undefined, negative_prompt |-> Undefined,
   num_inference_steps |-> Undefined, guidance_scale |-> Undefined,
   cfg |-> Undefined]

NoBody == Body("undefined", <<>>)
NoEnv == [ARK_API_KEY |-> Undefined, SILICONFLOW_API_KEY |-> Undefined]
NoRequest == [method |-> "", path |-> "", authorization |-> Undefined,
              jsonOk |-> TRUE]
NoJson == [dataTy |-> "undefined", data |-> <<>>,
           imagesTy |-> "undefined", images |-> <<>>,
           usage |-> Undefined, created |-> Undefined,
           timings |-> Undefined, seed |-> Undefined]
NoFetch == [kind |-> "none", ok |-> FALSE, status |-> 0, text |-> <<>>,
            jsonOk |-> FALSE, json |-> NoJson]
NoCompletion == [created |-> Undefined, model |-> <<>>, images |-> <<>>,
                 metadata |-> [present |-> FALSE, timings |-> Undefined,
                               seed |-> Undefined],
                 usage |-> Undefined]
NoResponse == [status |-> 0, kind |-> "none", text |-> <<>>,
               message |-> <<>>, completion |-> NoCompletion]

(***************************************************************************)
(* SpecExtract: coerceMessagePayload applied to every message history of   *)
(* at most MaxMsgs messages carrying at most MaxChunks chunks in total.    *)
(***************************************************************************)
Texts == {<<" ", "c">>, <<" ">>}

Urls == {<<"d", "a", "t", "a", ":", "1">>, <<"d", "a", "t", "a", ":", "2">>,
         <<"h", "t", "t", "p", ":", "1">>, <<"D", "A", "T", "A", ":", "2">>}

MalformedChunks ==
  {Chunk("text", "number", <<>>, "undefined", "undefined", <<>>),
   Chunk("image_url", "undefined", <<>>, "null", "undefined", <<>>),
   Chunk("image_url", "undefined", <<>>, "object", "undefined", <<>>),
   Chunk("undefined", "undefined", <<>>, "undefined", "undefined", <<>>)}

Chunks == {TextChunk(t) : t \in Texts} \cup {ImageChunk(u) : u \in Urls}
            \cup MalformedChunks

PlainMessages ==
  {Message("assistant", "string", <<"b">>, <<>>),
   UserString(<<" ", "a", " ">>),
   UserString(<<" ">>),
   Message("user", "other", <<>>, <<>>)}

RECURSIVE SumTo(_, _)
SumTo(ks, i) == IF i = 0 THEN 0 ELSE ks[i] + SumTo(ks, i - 1)

\* The history of n messages in which message i is the plain message
\* plain[i] when ks[i] = 0 and otherwise a user message whose content is the
\* next ks[i] chunks of cs.
History(n, ks, cs, plain) ==
  [i \in 1..n |->
     IF ks[i] = 0 THEN plain[i]
     ELSE UserArray(SubSeq(cs, SumTo(ks, i - 1) + 1, SumTo(ks, i)))]

InitExtract ==
  /\ pc = "idle"
  /\ \E n \in 1..MaxMsgs : \E ks \in [1..n -> 0..MaxChunks] :
       /\ SumTo(ks, n) <= MaxChunks
       /\ \E cs \in [1..SumTo(ks, n) -> Chunks] :
          \E plain \in [{i \in 1..n : ks[i] = 0} ->
                           PlainMessages \cup {UserArray(<<>>)}] :
            requestBody = Body("array", History(n, ks, cs, plain))
  /\ payload = NewPayload
  /\ env = NoEnv
  /\ req = NoRequest
  /\ provider = ""
  /\ apiKey = Undefined
  /\ outbound = <<>>
  /\ fetched = NoFetch
  /\ normalizer = ""
  /\ response = NoResponse

Extract ==
  /\ pc = "idle"
  /\ payload' = coerceMessagePayload(requestBody.messages)
  /\ pc' = "done"
  /\ UNCHANGED <<env, req, requestBody, provider, apiKey, outbound,
                 fetched, normalizer, response>>

NextExtract == Extract

SpecExtract == InitExtract /\ [][NextExtract]_vars

(***************************************************************************)
(* Properties of the Message Interpreter (checked under SpecExtract).      *)
(***************************************************************************)
msgs == requestBody.messages

IsUser(m) == m.role = "user"
IsTextChunk(c) == c.type = "text" /\ c.textTy = "string"
IsImageReference(c) ==
  c.type = "image_url" /\ c.imgTy = "object" /\ c.urlTy = "string"
IsDataUrl(u) == StartsWith(u, S_data)
IsOtherUrl(u) == ~StartsWith(u, S_data)

\* The prompt a user message leaves behind once it is fully processed.
Yield(m) ==
  IF m.cty = "string" THEN Trim(m.str)
  ELSE IF m.cty = "array" /\ SelectSeq(m.arr, IsTextChunk) # <<>>
       THEN LET ts == SelectSeq(m.arr, IsTextChunk)
            IN Trim(ts[Len(ts)].text)
       ELSE <<>>

Yielding == {i \in 1..Len(msgs) : IsUser(msgs[i]) /\ Yield(msgs[i]) # <<>>}

Greatest(S) == CHOOSE i \in S : \A j \in S : j <= i

NonEmptyStrings ==
  {i \in 1..Len(msgs) :
     IsUser(msgs[i]) /\ msgs[i].cty = "string" /\ msgs[i].str # <<>>}

TrimmedStrings ==
  {i \in 1..Len(msgs) :
     IsUser(msgs[i]) /\ msgs[i].cty = "string" /\ Trim(msgs[i].str) # <<>>}

\* C3 as stated: whenever the history contains a user message with
\* non-empty string content, the returned prompt is such a message's
\* trimmed string.
C3_AnyStringMessageWins ==
  (pc = "done" /\ NonEmptyStrings # {}) =>
     /\ ~payload.threw
     /\ \E i \in NonEmptyStrings : payload.prompt = Trim(msgs[i].str)

C3_Case ==
  /\ pc = "done"
  /\ TrimmedStrings # {}
  /\ \A j \in 1..Len(msgs) :
       (j > Greatest(TrimmedStrings) /\ IsUser(msgs[j])
          /\ msgs[j].cty = "array") => Yield(msgs[j]) = <<>>

\* C3 (amended): when the most recent user message whose string content is
\* non-empty after trimming is not followed by a user message whose last
\* text chunk is non-empty after trimming, the returned prompt is that
\* trimmed string.
C3_LatestStringMessageWins ==
  C3_Case =>
     /\ ~payload.threw
     /\ payload.prompt = Trim(msgs[Greatest(TrimmedStrings)].str)

C3_Witness ==
  /\ C3_Case
  /\ Len(msgs) = 2
  /\ Greatest(TrimmedStrings) = 1
  /\ msgs[2].cty = "array"
  /\ SelectSeq(msgs[2].arr, IsTextChunk) # <<>>
  /\ payload.prompt = <<"a">>

RECURSIVE UrlsOf(_)
UrlsOf(chunks) ==
  IF chunks = <<>> THEN <<>>
  ELSE IF IsImageReference(Head(chunks))
       THEN <<Head(chunks).url>> \o UrlsOf(Tail(chunks))
       ELSE UrlsOf(Tail(chunks))

\* The image URLs of the user messages i, i-1, ..., lowest in scan order.
RECURSIVE ScannedUrls(_, _)
ScannedUrls(i, lowest) ==
  IF i < lowest \/ i < 1 THEN <<>>
  ELSE (IF IsUser(msgs[i]) /\ msgs[i].cty = "array"
        THEN UrlsOf(msgs[i].arr) ELSE <<>>)
       \o ScannedUrls(i - 1, lowest)

\* C4: the returned dataUrls are exactly the data:-prefixed URLs of the
\* well-formed image chunks of the scanned user messages, and httpImages
\* exactly the other ones, each in scan order; malformed chunks contribute
\* nothing and cause no failure (the only failure is a missing prompt).
C4_ImagesClassifiedInOrder ==
  pc = "done" =>
     /\ ~payload.threw =>
          LET urls == ScannedUrls(Len(msgs), Greatest(Yielding))
          IN /\ payload.dataUrls = SelectSeq(urls, IsDataUrl)
             /\ payload.httpImages = SelectSeq(urls, IsOtherUrl)
     /\ payload.threw => Yielding = {}

C4_Witness ==
  /\ pc = "done"
  /\ ~payload.threw
  /\ Len(payload.dataUrls) >= 1
  /\ Len(payload.httpImages) >= 1
  /\ \E i \in 1..Len(msgs) : msgs[i].cty = "array" /\ Len(msgs[i].arr) = 3

NoUsableText(m) ==
  \/ ~IsUser(m)
  \/ m.cty = "string" /\ Trim(m.str) = <<>>
  \/ m.cty = "other"
  \/ m.cty = "array"
       /\ \A j \in 1..Len(m.arr) :
            IsTextChunk(m.arr[j]) => Trim(m.arr[j].text) = <<>>

\* C5: a history without a user message, or whose user messages carry no
\* text that is non-empty after trimming, fails with the prompt-not-found
\* error; and a returned payload always has a non-empty prompt.
C5_PromptNeverEmpty ==
  pc = "done" =>
     /\ (\A i \in 1..Len(msgs) : NoUsableText(msgs[i])) => payload.threw
     /\ ~payload.threw => payload.prompt # <<>>

C5_Witness ==
  /\ pc = "done"
  /\ payload.threw
  /\ \E i \in 1..Len(msgs) :
       /\ IsUser(msgs[i]) /\ msgs[i].cty = "array"
       /\ \E j \in 1..Len(msgs[i].arr) : IsImageReference(msgs[i].arr[j])
       /\ \E j \in 1..Len(msgs[i].arr) : IsTextChunk(msgs[i].arr[j])

OwnUrls(m) == IF m.cty = "array" THEN UrlsOf(m.arr) ELSE <<>>

\* C15: the scan runs from the most recent message to the oldest, skips
\* non-user messages and stops at the first user message that leaves a
\* non-empty prompt once fully processed: the prompt is that message's
\* trimmed string or the trimmed text of its last text chunk; the image
\* lists hold the images of the more recent user messages that left no
\* prompt, in scan order, followed by all images of the stopping message;
\* no older message contributes text or images.
C15_ScanStopsAtFirstYield ==
  (pc = "done" /\ ~payload.threw) =>
     /\ Yielding # {}
     /\ LET stop == Greatest(Yielding)
            newer == ScannedUrls(Len(msgs), stop + 1)
            own == OwnUrls(msgs[stop])
        IN /\ payload.prompt = Yield(msgs[stop])
           /\ payload.dataUrls =
                SelectSeq(newer, IsDataUrl) \o SelectSeq(own, IsDataUrl)
           /\ payload.httpImages =
                SelectSeq(newer, IsOtherUrl) \o SelectSeq(own, IsOtherUrl)

C15_Witness ==
  /\ pc = "done"
  /\ ~payload.threw
  /\ Len(msgs) = 2
  /\ Greatest(Yielding) = 1
  /\ IsUser(msgs[2])
  /\ OwnUrls(msgs[2]) # <<>>
  /\ msgs[1].cty = "array"
  /\ \E j, k \in 1..Len(msgs[1].arr) :
       /\ j < k
       /\ IsTextChunk(msgs[1].arr[j])
       /\ IsImageReference(msgs[1].arr[k])
  /\ Len(payload.dataUrls) + Len(payload.httpImages) =
       Len(OwnUrls(msgs[2])) + Len(OwnUrls(msgs[1]))

(***************************************************************************)
(* JSON.stringify of the error bodies, and the reading of the Authorization *)
(* header.                                                                  *)
(***************************************************************************)
RECURSIVE JsonEscape(_)
JsonEscape(s) ==
  IF s = <<>> THEN <<>>
  ELSE (CASE Head(s) = "\"" -> <<"\\", "\"">>
          [] Head(s) = "\\" -> <<"\\", "\\">>
          [] Head(s) = "\n" -> <<"\\", "n">>
          [] Head(s) = "\t" -> <<"\\", "t">>
          [] OTHER -> <<Head(s)>>) \o JsonEscape(Tail(s))

JsonQuote(s) == <<"\"">> \o JsonEscape(s) \o <<"\"">>

\* JSON.stringify({ error: text })
JsonStringifyError(text) ==
  <<"{">> \o JsonQuote(<<"e", "r", "r", "o", "r">>) \o <<":">>
          \o JsonQuote(text) \o <<"}">>

S_bearer == <<"b", "e", "a", "r", "e", "r">>
S_BearerSp == <<"B", "e", "a", "r", "e", "r", " ">>

LowerCase(c) ==
  CASE c = "B" -> "b" [] c = "E" -> "e" [] c = "A" -> "a" [] c = "R" -> "r"
    [] OTHER -> c

\* raw.replace(/^Bearer\s+/i, "")
StripBearer(raw) ==
  IF /\ Len(raw) >= 7
     /\ [i \in 1..6 |-> LowerCase(raw[i])] = S_bearer
     /\ IsSpace(raw[7])
  THEN TrimStart(SubSeq(raw, 7, Len(raw)))
  ELSE raw

readHeaderApiKey(r) ==
  IF ~Truthy(r.authorization) THEN Undefined
  ELSE StrV(Trim(StripBearer(r.authorization.str)))

(***************************************************************************)
(* The fetch calls issued by callArk / callSiliconFlow and the dispatch of *)
(* handleChatCompletions between them.                                     *)
(***************************************************************************)
ArkFetch(key, rb, pl) ==
  [provider |-> "ark", url |-> ARK_API_URL, method |-> "POST",
   authorization |-> S_BearerSp \o key, body |-> ArkRequest(rb, pl)]

SiliconFlowFetch(key, rb, pl) ==
  [provider |-> "siliconflow", url |-> SILICONFLOW_API_URL, method |-> "POST",
   authorization |-> S_BearerSp \o key, body |-> SiliconFlowRequest(rb, pl)]

\* Dispatch that calls both providers.
ProviderCallsBoth(prov, key, rb, pl) ==
  <<ArkFetch(key, rb, pl), SiliconFlowFetch(key, rb, pl)>>

ProviderCalls(prov, key, rb, pl) ==
  IF prov = "ark" THEN <<ArkFetch(key, rb, pl)>>
  ELSE <<SiliconFlowFetch(key, rb, pl)>>

EnvKey(prov) ==
  IF prov = "ark" THEN env.ARK_API_KEY ELSE env.SILICONFLOW_API_KEY

(***************************************************************************)
(* Responses to the caller.                                                *)
(***************************************************************************)
S_NotFound == <<"N", "o", "t", " ", "f", "o", "u", "n", "d">>
S_MethodNotAllowed == <<"M", "e", "t", "h", "o", "d", " ", "n", "o", "t", " ", "a", "l", "l", "o", "w", "e", "d">>
\* The three messages below stand for the literal texts of the source.
S_MessagesEmpty == <<"messages must not be empty">>
S_MissingApiKey == <<"missing API Key">>
S_PromptNotFound == <<"cannot extract a prompt text from the user messages">>
S_JsonSyntaxError == <<"Unexpected token in JSON">>
S_FetchFailed == <<"error sending request">>

Rejection(status, text) ==
  [status |-> status, kind |-> "validation",
   text |-> JsonStringifyError(text), message |-> <<>>,
   completion |-> NoCompletion]

\* catch (err): any thrown value that is not a Response
ServerError(message) ==
  [status |-> 500, kind |-> "server_error", text |-> <<>>,
   message |-> message, completion |-> NoCompletion]

\* A variant that reports every upstream failure as 502 with a fixed text.
UpstreamErrorAsBadGateway(res) ==
  [status |-> 502, kind |-> "upstream",
   text |-> JsonStringifyError(<<"upstream error">>), message |-> <<>>,
   completion |-> NoCompletion]

\* throw new Response(JSON.stringify({ error: errorText }),
\*                    { status: res.status }), returned by the catch
UpstreamError(res) ==
  [status |-> res.status, kind |-> "upstream",
   text |-> JsonStringifyError(res.text), message |-> <<>>,
   completion |-> NoCompletion]

OptionsResponse ==
  [status |-> 200, kind |-> "empty", text |-> <<>>, message |-> <<>>,
   completion |-> NoCompletion]

(***************************************************************************)
(* Normalisation of the provider replies and the chat-completion envelope. *)
(***************************************************************************)
S_pngprefix == <<"d", "a", "t", "a", ":", "i", "m", "a", "g", "e", "/", "p", "n", "g", ";", "b", "a", "s", "e", "6", "4", ",">>

\* The url computed for one entry of the provider's image list.
ImageUrl(img) ==
  IF img.urlTy = "string" THEN StrV(img.url)
  ELSE IF img.b64Ty = "string" THEN StrV(S_pngprefix \o img.b64)
  ELSE Undefined

RECURSIVE ArkImages(_)
ArkImages(list) ==
  IF list = <<>> THEN <<>>
  ELSE LET url == ImageUrl(Head(list))
       IN (IF ~Truthy(url) THEN <<>>
           ELSE <<[image_url |-> [url |-> url.str],
                   size |-> IF Head(list).sizeTy = "string"
                            THEN StrV(Head(list).size) ELSE Undefined]>>)
          \o ArkImages(Tail(list))

RECURSIVE SiliconFlowImages(_)
SiliconFlowImages(list) ==
  IF list = <<>> THEN <<>>
  ELSE LET url == ImageUrl(Head(list))
       IN (IF ~Truthy(url) THEN <<>>
           ELSE <<[image_url |-> [url |-> url.str], size |-> Undefined]>>)
          \o SiliconFlowImages(Tail(list))

ArkResult(json, now, rb) ==
  [data |-> IF json.dataTy = "array" THEN ArkImages(json.data) ELSE <<>>,
   usage |-> json.usage,
   created |-> IF json.created.ty = "number" THEN json.created
               ELSE NumV(now),
   model |-> Coalesce(rb.model, ARK_DEFAULT_MODEL),
   timings |-> Undefined,
   seed |-> Undefined]

\* A variant that prefers a numeric created member of the reply, as
\* callArk does.
SiliconFlowResultProviderCreated(json, now, rb) ==
  [data |-> IF json.imagesTy = "array" THEN SiliconFlowImages(json.images)
            ELSE <<>>,
   usage |-> Undefined,
   created |-> IF json.created.ty = "number" THEN json.created
               ELSE NumV(now),
   model |-> Coalesce(rb.model, SILICONFLOW_DEFAULT_MODEL),
   timings |-> json.timings,
   seed |-> json.seed]

SiliconFlowResult(json, now, rb) ==
  [data |-> IF json.imagesTy = "array" THEN SiliconFlowImages(json.images)
            ELSE <<>>,
   usage |-> Undefined,
   created |-> NumV(now),
   model |-> Coalesce(rb.model, SILICONFLOW_DEFAULT_MODEL),
   timings |-> json.timings,
   seed |-> json.seed]

\* A variant that emits metadata when either timings or seed is present.
CompletionSeedAlone(result) ==
  [status |-> 200, kind |-> "completion", text |-> <<>>, message |-> <<>>,
   completion |->
     [created |-> result.created,
      model |-> result.model,
      images |-> result.data,
      metadata |-> IF Truthy(result.timings) \/ result.seed # Undefined
                   THEN [present |-> TRUE, timings |-> result.timings,
                         seed |-> result.seed]
                   ELSE [present |-> FALSE, timings |-> Undefined,
                         seed |-> Undefined],
      usage |-> result.usage]]

Completion(result) ==
  [status |-> 200, kind |-> "completion", text |-> <<>>, message |-> <<>>,
   completion |->
     [created |-> result.created,
      model |-> result.model,
      images |-> result.data,
      metadata |-> IF Truthy(result.timings)
                   THEN [present |-> TRUE, timings |-> result.timings,
                         seed |-> result.seed]
                   ELSE [present |-> FALSE, timings |-> Undefined,
                         seed |-> Undefined],
      usage |-> result.usage]]

(***************************************************************************)
(* Spec: one inbound request through handler / handleChatCompletions.      *)
(* HandleRequest runs up to the first await on fetch (or to the response   *)
(* when the request ends earlier); ArkResponds and SiliconFlowResponds are *)
(* the continuations of callArk and callSiliconFlow once fetch settles.    *)
(***************************************************************************)
CHAT_PATH == "/v1/chat/completions"

Reply(resp, rb, pl, prov, key) ==
  /\ pc' = "done"
  /\ response' = resp
  /\ requestBody' = rb
  /\ payload' = pl
  /\ provider' = prov
  /\ apiKey' = key
  /\ outbound' = <<>>

Dispatch(prov, key, rb, pl) ==
  /\ pc' = IF prov = "ark" THEN "callArk" ELSE "callSiliconFlow"
  /\ response' = NoResponse
  /\ requestBody' = rb
  /\ payload' = pl
  /\ provider' = prov
  /\ apiKey' = key
  /\ outbound' = ProviderCalls(prov, key.str, rb, pl)

HandleRequest(r, body) ==
  /\ pc = "idle"
  /\ req' = r
  /\ UNCHANGED <<env, fetched, normalizer>>
  /\ LET pl == coerceMessagePayload(body.messages)
         prov == detectProvider(body.model)
         headerKey == readHeaderApiKey(r)
         key == IF Truthy(headerKey) THEN headerKey ELSE EnvKey(prov)
     IN IF r.method = "OPTIONS"
        THEN Reply(OptionsResponse, NoBody, NewPayload, "", Undefined)
        ELSE IF r.path # CHAT_PATH
        THEN Reply(Rejection(404, S_NotFound), NoBody, NewPayload, "",
                   Undefined)
        ELSE IF r.method # "POST"
        THEN Reply(Rejection(405, S_MethodNotAllowed), NoBody, NewPayload,
                   "", Undefined)
        ELSE IF ~r.jsonOk
        THEN Reply(ServerError(S_JsonSyntaxError), NoBody, NewPayload, "",
                   Undefined)
        ELSE IF body.messagesTy # "array" \/ Len(body.messages) = 0
        THEN Reply(Rejection(400, S_MessagesEmpty), body, NewPayload, "",
                   Undefined)
        ELSE IF pl.threw
        THEN Reply(ServerError(S_PromptNotFound), body, pl, "", Undefined)
        ELSE IF ~Truthy(key)
        THEN Reply(Rejection(401, S_MissingApiKey), body, pl, prov, key)
        ELSE Dispatch(prov, key, body, pl)

Settle(res, resp, norm) ==
  /\ fetched' = res
  /\ response' = resp
  /\ normalizer' = norm
  /\ pc' = "done"
  /\ UNCHANGED <<env, req, requestBody, payload, provider, apiKey, outbound>>

ArkResponds(res, now) ==
  /\ pc = "callArk"
  /\ IF res.kind = "error" THEN Settle(res, ServerError(S_FetchFailed), "")
     ELSE IF ~res.ok THEN Settle(res, UpstreamError(res), "")
     ELSE IF ~res.jsonOk THEN Settle(res, ServerError(S_JsonSyntaxError), "")
     ELSE Settle(res, Completion(ArkResult(res.json, now, requestBody)),
                 "ark")

SiliconFlowResponds(res, now) ==
  /\ pc = "callSiliconFlow"
  /\ IF res.kind = "error" THEN Settle(res, ServerError(S_FetchFailed), "")
     ELSE IF ~res.ok THEN Settle(res, UpstreamError(res), "")
     ELSE IF ~res.jsonOk THEN Settle(res, ServerError(S_JsonSyntaxError), "")
     ELSE Settle(res,
                 Completion(SiliconFlowResult(res.json, now, requestBody)),
                 "siliconflow")

(***************************************************************************)
(* Inputs of Spec.                                                         *)
(***************************************************************************)
S_cat == <<"a", " ", "c", "a", "t">>
S_d1 == <<"d", "a", "t", "a", ":", "1">>
S_d2 == <<"d", "a", "t", "a", ":", "2">>
S_h1 == <<"h", "t", "t", "p", ":", "1">>
S_h2 == <<"D", "A", "T", "A", ":", "2">>
S_KolorsModel == <<"K", "w", "a", "i", "-", "K", "o", "l", "o", "r", "s", "/", "K", "o", "l", "o", "r", "s">>
S_lowerqwen == <<"q", "w", "e", "n", "/", "x">>
S_mysf == <<"m", "y", "-", "s", "i", "l", "i", "c", "o", "n", "f", "l", "o", "w", "-", "x">>
S_xQwen == <<"x", "Q", "w", "e", "n", "/">>
S_rate == <<"{", "\"", "e", "r", "r", "o", "r", "\"", ":", "\"", "r", "a", "t", "e", " ", "l", "i", "m", "i", "t", "e", "d", "\"", "}">>

Envs == {[ARK_API_KEY |-> a, SILICONFLOW_API_KEY |-> b] :
           a \in {Undefined, StrV(<<"a", "k">>)},
           b \in {Undefined, StrV(<<"s", "k">>)}}

Requests ==
  [method : {"POST", "GET", "OPTIONS"},
   path : {CHAT_PATH, "/v1/models"},
   authorization : {Undefined,
                    StrV(S_BearerSp \o <<"h", "k">>),
                    StrV(<<"B", "E", "A", "R", "E", "R", " ", " ", "h", "2">>),
                    StrV(<<"r", "a", "w">>)},
   jsonOk : BOOLEAN]

Assistant == Message("assistant", "string", <<"b">>, <<>>)

HandlerMessages ==
  {<<"undefined", <<>>>>,
   <<"string", <<>>>>,
   <<"array", <<>>>>,
   <<"array", <<UserString(S_cat)>>>>,
   <<"array", <<Assistant>>>>,
   <<"array", <<UserArray(<<ImageChunk(S_h1)>>)>>>>,
   <<"array", <<UserArray(<<TextChunk(<<" ", "c">>), ImageChunk(S_h1)>>)>>>>,
   <<"array", <<UserArray(<<ImageChunk(S_d1), TextChunk(<<" ", "c">>),
                            ImageChunk(S_h1)>>)>>>>,
   <<"array", <<UserArray(<<TextChunk(<<" ", "c">>), ImageChunk(S_h1),
                            ImageChunk(S_h2)>>),
                Assistant,
                UserArray(<<ImageChunk(S_d2), ImageChunk(S_d1)>>)>>>>}

HandlerModels ==
  {Undefined, StrV(<<>>), StrV(SILICONFLOW_DEFAULT_MODEL),
   StrV(S_KolorsModel), StrV(ARK_DEFAULT_MODEL), StrV(S_mysf),
   StrV(S_lowerqwen), StrV(S_xQwen)}

HandlerBodies ==
  {[Body(m[1], m[2]) EXCEPT !.model = model, !.n = n] :
     m \in HandlerMessages, model \in HandlerModels,
     n \in {Undefined, NumV(Whole(2))}}

ImageEntry(urlTy, url, b64Ty, b64, sizeTy, size) ==
  [urlTy |-> urlTy, url |-> url, b64Ty |-> b64Ty, b64 |-> b64,
   sizeTy |-> sizeTy, size |-> size]

UrlEntry == ImageEntry("string", <<"h", "t", "t", "p", "s", ":", "x">>,
                       "undefined", <<>>, "undefined", <<>>)
B64Entry == ImageEntry("undefined", <<>>, "string", <<"Q", "U", "I", "=">>,
                       "string", S_1024)
EmptyEntry == ImageEntry("undefined", <<>>, "undefined", <<>>,
                         "undefined", <<>>)

ProviderJsons ==
  {NoJson,
   [NoJson EXCEPT !.dataTy = "array", !.data = <<B64Entry, EmptyEntry,
                                                  UrlEntry>>,
                  !.usage = ObjV(<<"u">>),
                  !.created = NumV(Whole(1700000000))],
   [NoJson EXCEPT !.imagesTy = "array", !.images = <<UrlEntry>>,
                  !.timings = ObjV(<<"t">>), !.seed = NumV(Whole(7))],
   [NoJson EXCEPT !.imagesTy = "array", !.images = <<B64Entry>>,
                  !.seed = NumV(Whole(7)),
                  !.created = NumV(Whole(1700000000))]}

FetchOutcomes ==
  {[NoFetch EXCEPT !.kind = "error"]}
  \cup {[NoFetch EXCEPT !.kind = "response", !.status = st, !.text = tx] :
          st \in {400, 429, 503},
          tx \in {S_rate, <<"a", "\\", "\n">>, <<>>}}
  \cup {[NoFetch EXCEPT !.kind = "response", !.ok = TRUE, !.status = 200]}
  \cup {[NoFetch EXCEPT !.kind = "response", !.ok = TRUE, !.status = 200,
                        !.jsonOk = TRUE, !.json = j] : j \in ProviderJsons}

\* Math.floor(Date.now() / 1000)
Nows == {Whole(1762099200), Whole(1762099201)}

Init ==
  /\ pc = "idle"
  /\ env \in Envs
  /\ req = NoRequest
  /\ requestBody = NoBody
  /\ payload = NewPayload
  /\ provider = ""
  /\ apiKey = Undefined
  /\ outbound = <<>>
  /\ fetched = NoFetch
  /\ normalizer = ""
  /\ response = NoResponse

Next ==
  \/ \E r \in Requests, body \in HandlerBodies : HandleRequest(r, body)
  \/ \E res \in FetchOutcomes, now \in Nows : ArkResponds(res, now)
  \/ \E res \in FetchOutcomes, now \in Nows : SiliconFlowResponds(res, now)

Spec == Init /\ [][Next]_vars

(***************************************************************************)
(* Properties of the request handling (checked under Spec).                *)
(***************************************************************************)
Endpoint(prov) == IF prov = "ark" THEN ARK_API_URL ELSE SILICONFLOW_API_URL

Calling == pc \in {"callArk", "callSiliconFlow"}

\* C1: a request makes at most one outbound call and never one to each
\* provider; a request that reaches the provider stage (its call is pending
\* or its response was produced from the provider's reply) has made exactly
\* one call, to the endpoint of detectProvider(model); a request rejected
\* for missing or empty messages or for a missing credential has made none.
C1_OneCallToOneProvider ==
  /\ Len(outbound) <= 1
  /\ (Calling \/ fetched.kind # "none") =>
        /\ Len(outbound) = 1
        /\ outbound[1].url = Endpoint(detectProvider(requestBody.model))
        /\ outbound[1].provider = detectProvider(requestBody.model)
  /\ (pc = "done" /\ response.kind = "validation") =>
        /\ outbound = <<>>
        /\ fetched.kind = "none"

C1_Witness ==
  /\ pc = "done"
  /\ response.kind = "completion"
  /\ Len(outbound) = 1
  /\ outbound[1].provider = "siliconflow"

\* What a caller reads back from the "error" member of an error body.
RECURSIVE JsonUnescape(_)
JsonUnescape(s) ==
  IF s = <<>> THEN <<>>
  ELSE IF Head(s) = "\\" /\ Len(s) >= 2
       THEN <<(CASE s[2] = "n" -> "\n" [] s[2] = "t" -> "\t"
                 [] OTHER -> s[2])>> \o JsonUnescape(SubSeq(s, 3, Len(s)))
       ELSE <<Head(s)>> \o JsonUnescape(Tail(s))

S_errprefix == <<"{", "\"", "e", "r", "r", "o", "r", "\"", ":", "\"">>
S_errsuffix == <<"\"", "}">>

HasErrorMember(body) ==
  /\ Len(body) >= Len(S_errprefix) + Len(S_errsuffix)
  /\ StartsWith(body, S_errprefix)
  /\ SubSeq(body, Len(body) - 1, Len(body)) = S_errsuffix

ErrorMember(body) ==
  JsonUnescape(SubSeq(body, Len(S_errprefix) + 1, Len(body) - 2))

UpstreamFailed == fetched.kind = "response" /\ ~fetched.ok

\* C2: when the provider answers with a non-success status, the response
\* to the caller has the provider's status code and carries the provider's
\* body text unchanged (as the error member of its JSON body); the call was
\* made once and the request is finished.
C2_UpstreamErrorPassedThrough ==
  UpstreamFailed =>
     /\ pc = "done"
     /\ response.status = fetched.status
     /\ HasErrorMember(response.text)
     /\ ErrorMember(response.text) = fetched.text
     /\ Len(outbound) = 1

C2_Witness ==
  /\ UpstreamFailed
  /\ fetched.status = 429
  /\ fetched.text = S_rate
  /\ response.status = 429

\* C6 as stated: a request with non-empty messages from which no prompt
\* can be extracted is answered with a client error (4xx).
C6_NoPromptIsClientError ==
  (pc = "done" /\ payload.threw) =>
     /\ response.status \in 400..499
     /\ response.kind = "validation"

\* C7: the provider is "siliconflow" exactly when the model is present and
\* starts with "Qwen/" or "Kwai-Kolors/" or contains "siliconflow", and
\* "ark" otherwise; the endpoint called, the configured credential used as
\* fallback and the normalizer applied to the reply are that provider's.
C7_RoutingByModel ==
  provider # "" =>
     /\ provider \in {"ark", "siliconflow"}
     /\ provider = "siliconflow" <=>
          /\ requestBody.model.ty = "string"
          /\ \/ StartsWith(requestBody.model.str, S_Qwen)
             \/ StartsWith(requestBody.model.str, S_Kolors)
             \/ Includes(requestBody.model.str, S_siliconflow)
     /\ requestBody.model.ty = "undefined" => provider = "ark"
     /\ outbound # <<>> =>
          /\ outbound[1].provider = provider
          /\ outbound[1].url = Endpoint(provider)
          /\ outbound[1].authorization = S_BearerSp \o apiKey.str
     /\ ~Truthy(readHeaderApiKey(req)) =>
          apiKey = IF provider = "ark" THEN env.ARK_API_KEY
                   ELSE env.SILICONFLOW_API_KEY
     /\ normalizer # "" => normalizer = provider

C7_Witness ==
  /\ provider = "siliconflow"
  /\ requestBody.model = StrV(S_mysf)
  /\ ~Truthy(readHeaderApiKey(req))
  /\ normalizer = "siliconflow"

\* C10: the provider A request's image list is exactly the remote images
\* and holds no data: URL; the provider B request carries a reference image
\* exactly when there are embedded images, it is the first of them, and it
\* is a data: URL.
C10_ReferenceImagesNotCrossed ==
  outbound # <<>> =>
     /\ outbound[1].provider = "ark" =>
          /\ outbound[1].body.image = payload.httpImages
          /\ \A i \in 1..Len(outbound[1].body.image) :
               ~StartsWith(outbound[1].body.image[i], S_data)
     /\ outbound[1].provider = "siliconflow" =>
          /\ outbound[1].body.image.ty \in {"undefined", "string"}
          /\ outbound[1].body.image.ty = "string" <=> payload.dataUrls # <<>>
          /\ outbound[1].body.image.ty = "string" =>
               /\ outbound[1].body.image.str = payload.dataUrls[1]
               /\ StartsWith(outbound[1].body.image.str, S_data)

C10_Witness ==
  /\ outbound # <<>>
  /\ outbound[1].provider = "siliconflow"
  /\ outbound[1].body.image.ty = "string"
  /\ Len(payload.dataUrls) = 2
  /\ Len(payload.httpImages) = 2

(***************************************************************************)
(* SpecBuild: the request bodies built by callArk and callSiliconFlow for  *)
(* request fields drawn from the sets below.                               *)
(***************************************************************************)
Counts ==
  {Undefined, StrV(<<"3">>), NumV(Whole(-1)), NumV(Whole(0)),
   NumV(Dec(0, 5)), NumV(Whole(1)), NumV(Dec(2, 5)), NumV(Whole(4)),
   NumV(Whole(10))}

Seeds ==
  {Undefined, StrV(<<"7">>), NumV(Whole(-1)), NumV(Whole(42)),
   NumV(Big(9, 999999999)), NumV(Big(10, 0))}

Steps ==
  {Undefined, StrV(<<"x">>), NumV(Whole(0)), NumV(Whole(30)),
   NumV(Whole(101))}

GuidanceScales ==
  {Undefined, NumV(Whole(-1)), NumV(Dec(7, 5)), NumV(Whole(21))}

CfgScales ==
  {Undefined, NumV(Whole(0)), NumV(Dec(0, 1)), NumV(Dec(4, 5)),
   NumV(Whole(25))}

S_512 == <<"5", "1", "2", "x", "5", "1", "2">>
S_768 == <<"7", "6", "8", "x", "7", "6", "8">>

BuildMessages == <<UserString(S_cat)>>

NumericBodies ==
  {[Body("array", BuildMessages) EXCEPT
      !.n = n, !.seed = sd, !.num_inference_steps = st,
      !.guidance_scale = g, !.cfg = c] :
     n \in Counts, sd \in Seeds, st \in Steps, g \in GuidanceScales,
     c \in CfgScales}

StringBodies ==
  {[Body("array", BuildMessages) EXCEPT
      !.model = m, !.size = sz, !.image_size = isz,
      !.negative_prompt = np] :
     m \in {Undefined, StrV(S_KolorsModel), StrV(ARK_DEFAULT_MODEL)},
     sz \in {Undefined, StrV(S_512)},
     isz \in {Undefined, StrV(S_768)},
     np \in {Undefined, StrV(<<>>), StrV(<<"b", "l", "u", "r">>)}}

BuildPayloads ==
  {[NewPayload EXCEPT !.prompt = S_cat],
   [NewPayload EXCEPT !.prompt = <<"c">>, !.httpImages = <<S_h1>>],
   [NewPayload EXCEPT !.prompt = <<"c">>, !.dataUrls = <<S_d2, S_d1>>,
                      !.httpImages = <<S_h1, S_h2>>]}

InitBuild ==
  /\ pc = "idle"
  /\ requestBody \in NumericBodies \cup StringBodies
  /\ payload \in BuildPayloads
  /\ apiKey = StrV(<<"k">>)
  /\ env = NoEnv
  /\ req = NoRequest
  /\ provider = ""
  /\ outbound = <<>>
  /\ fetched = NoFetch
  /\ normalizer = ""
  /\ response = NoResponse

BuildArk ==
  /\ pc = "idle"
  /\ provider' = "ark"
  /\ outbound' = <<ArkFetch(apiKey.str, requestBody, payload)>>
  /\ pc' = "callArk"
  /\ UNCHANGED <<env, req, requestBody, payload, apiKey, fetched,
                 normalizer, response>>

BuildSiliconFlow ==
  /\ pc = "idle"
  /\ provider' = "siliconflow"
  /\ outbound' = <<SiliconFlowFetch(apiKey.str, requestBody, payload)>>
  /\ pc' = "callSiliconFlow"
  /\ UNCHANGED <<env, req, requestBody, payload, apiKey, fetched,
                 normalizer, response>>

NextBuild == BuildArk \/ BuildSiliconFlow

SpecBuild == InitBuild /\ [][NextBuild]_vars

(***************************************************************************)
(* Properties of the request builders (checked under SpecBuild).           *)
(***************************************************************************)
One == Whole(1)
Four == Whole(4)

IsInteger(x) == ~x.nan /\ x.t = 0

Between(x, lo, hi) == ~x.nan /\ NumLeq(lo, x) /\ NumLeq(x, hi)

\* v saturated into [lo, hi], by cases
Saturated(v, lo, hi) ==
  IF ~NumLeq(lo, v) THEN lo ELSE IF ~NumLeq(v, hi) THEN hi ELSE v

ArkBuilt == pc = "callArk" /\ outbound # <<>>
SiliconFlowBuilt == pc = "callSiliconFlow" /\ outbound # <<>>

\* C8 as stated: every numeric count n requested of provider A yields
\* sequential mode "auto" with an integer max_images in [1,4] equal to n
\* clamped; no requested count yields mode "disabled" and no max_images.
C8_ArkCountClampedToInteger ==
  ArkBuilt =>
     LET b == outbound[1].body
     IN /\ requestBody.n.ty = "number" =>
             /\ b.sequential_image_generation = "auto"
             /\ b.sequential_image_generation_options.present
             /\ IsInteger(b.sequential_image_generation_options.max_images)
             /\ Between(b.sequential_image_generation_options.max_images,
                        One, Four)
        /\ requestBody.n.ty = "undefined" =>
             /\ b.sequential_image_generation = "disabled"
             /\ ~b.sequential_image_generation_options.present

SuppliedAndClamped(out, in, lo, hi) ==
  /\ out.ty = "number" <=> in.ty = "number"
  /\ out.ty \in {"number", "undefined"}
  /\ in.ty = "number" => out.num = Saturated(in.num, lo, hi)

\* C9: the provider B request always has batch_size, equal to the numeric
\* count saturated into [1,4] and to 1 when no numeric count is given; seed,
\* num_inference_steps, guidance_scale and cfg are present exactly when the
\* caller supplied a number, and then equal that number saturated into
\* [0, 9999999999], [1,100], [0,20] and [0.1,20].
C9_SiliconFlowNumbersSaturated ==
  SiliconFlowBuilt =>
     LET b == outbound[1].body
     IN /\ b.batch_size =
             IF requestBody.n.ty = "number"
             THEN Saturated(requestBody.n.num, One, Four) ELSE One
        /\ Between(b.batch_size, One, Four)
        /\ SuppliedAndClamped(b.seed, requestBody.seed, Whole(0),
                              Big(9, 999999999))
        /\ SuppliedAndClamped(b.num_inference_steps,
                              requestBody.num_inference_steps, One,
                              Whole(100))
        /\ SuppliedAndClamped(b.guidance_scale, requestBody.guidance_scale,
                              Whole(0), Whole(20))
        /\ SuppliedAndClamped(b.cfg, requestBody.cfg, Dec(0, 1), Whole(20))

C9_Witness ==
  /\ SiliconFlowBuilt
  /\ requestBody.n = NumV(Whole(10))
  /\ outbound[1].body.batch_size = Four
  /\ requestBody.seed = NumV(Big(10, 0))
  /\ requestBody.cfg = NumV(Whole(0))
  /\ requestBody.num_inference_steps.ty = "string"

(***************************************************************************)
(* SpecNormalize: the continuations of callArk and callSiliconFlow applied *)
(* to successful provider replies whose image list has at most MaxEntries  *)
(* entries.  The initial states are the states of Spec in which the call   *)
(* for the request {messages: [{role: "user", content: "a cat"}]} is       *)
(* pending.                                                                *)
(***************************************************************************)
MaxEntries == 2

BothEntry == ImageEntry("string", <<"h", "t", "t", "p", "s", ":", "y">>,
                        "string", <<"Q", "g", "=", "=">>, "undefined", <<>>)
EmptyUrlB64Entry == ImageEntry("string", <<>>, "string",
                               <<"Q", "U", "I", "=">>, "undefined", <<>>)
NumberUrlB64Entry == ImageEntry("number", <<>>, "string",
                                <<"Q", "w", "=", "=">>, "undefined", <<>>)

Entries == {UrlEntry, B64Entry, EmptyEntry, BothEntry, EmptyUrlB64Entry,
            NumberUrlB64Entry}

\* <<typeof tag, entries>> of the member holding the image list
ImageLists ==
  {<<"undefined", <<>>>>, <<"object", <<>>>>}
  \cup {<<"array", l>> : l \in UNION {[1..k -> Entries] : k \in 0..MaxEntries}}

\* A provider reply carrying the list under its data or its images member
NormalizeJson(member, list, u, c, t, sd) ==
  [dataTy |-> IF member = "data" THEN list[1] ELSE "undefined",
   data |-> IF member = "data" THEN list[2] ELSE <<>>,
   imagesTy |-> IF member = "images" THEN list[1] ELSE "undefined",
   images |-> IF member = "images" THEN list[2] ELSE <<>>,
   usage |-> u, created |-> c, timings |-> t, seed |-> sd]

Usages == {Undefined, ObjV(<<"u">>)}
Createds == {Undefined, NumV(Whole(1700000000)), StrV(<<"x">>)}
Timings == {Undefined, ObjV(<<"t">>), NumV(Whole(0))}
ReplySeeds == {Undefined, NumV(Whole(7))}

NormalizeOutcome(json) ==
  [NoFetch EXCEPT !.kind = "response", !.ok = TRUE, !.status = 200,
                  !.jsonOk = TRUE, !.json = json]

PendingBody(prov) ==
  [Body("array", BuildMessages) EXCEPT
     !.model = IF prov = "ark" THEN Undefined
               ELSE StrV(SILICONFLOW_DEFAULT_MODEL)]

InitNormalize ==
  \E prov \in {"ark", "siliconflow"} :
    /\ pc = IF prov = "ark" THEN "callArk" ELSE "callSiliconFlow"
    /\ provider = prov
    /\ requestBody = PendingBody(prov)
    /\ payload = coerceMessagePayload(BuildMessages)
    /\ apiKey = StrV(<<"k">>)
    /\ outbound = ProviderCalls(prov, <<"k">>, PendingBody(prov),
                                coerceMessagePayload(BuildMessages))
    /\ env = NoEnv
    /\ req = [method |-> "POST", path |-> CHAT_PATH,
              authorization |-> StrV(S_BearerSp \o <<"k">>),
              jsonOk |-> TRUE]
    /\ fetched = NoFetch
    /\ normalizer = ""
    /\ response = NoResponse

NextNormalize ==
  \/ /\ pc = "callArk"
     /\ \E member \in {"data", "images"}, list \in ImageLists, u \in Usages,
           c \in Createds, t \in Timings, sd \in ReplySeeds, now \in Nows :
          ArkResponds(
            NormalizeOutcome(NormalizeJson(member, list, u, c, t, sd)), now)
  \/ /\ pc = "callSiliconFlow"
     /\ \E member \in {"data", "images"}, list \in ImageLists, u \in Usages,
           c \in Createds, t \in Timings, sd \in ReplySeeds, now \in Nows :
          SiliconFlowResponds(
            NormalizeOutcome(NormalizeJson(member, list, u, c, t, sd)), now)

SpecNormalize == InitNormalize /\ [][NextNormalize]_vars

(***************************************************************************)
(* Properties of the Response Normalizer (checked under SpecNormalize).    *)
(***************************************************************************)
Normalized == pc = "done" /\ fetched.kind = "response" /\ fetched.ok
                /\ fetched.jsonOk

\* The member of the reply in which the provider's image list is looked up.
ListTy == IF provider = "ark" THEN fetched.json.dataTy
          ELSE fetched.json.imagesTy
ListOf == IF provider = "ark" THEN fetched.json.data ELSE fetched.json.images

RECURSIVE DecodedUrls(_)
DecodedUrls(list) ==
  IF list = <<>> THEN <<>>
  ELSE (IF Head(list).urlTy = "string" THEN <<Head(list).url>>
        ELSE IF Head(list).b64Ty = "string"
             THEN <<S_pngprefix \o Head(list).b64>>
             ELSE <<>>)
       \o DecodedUrls(Tail(list))

ImageUrlsOf(images) == [i \in 1..Len(images) |-> images[i].image_url.url]

\* C11 as stated: the output urls are, in order, each entry's url member
\* when it is a string, else the data:image/png;base64, URI of its string
\* base64 payload; only entries with neither are dropped.
C11_EntriesDecodedInOrder ==
  (Normalized /\ ListTy = "array") =>
     /\ response.kind = "completion"
     /\ ImageUrlsOf(response.completion.images) = DecodedUrls(ListOf)

\* C12 as stated: a reply in which the image list cannot be located (the
\* member the provider's list is read from is not an array) is answered
\* with a server-error response, and a completion envelope is produced
\* only when the list was located.
C12_MissingListIsServerError ==
  Normalized =>
     /\ ListTy # "array" => response.kind = "server_error"
     /\ response.kind = "completion" => ListTy = "array"

Completed == Normalized /\ response.kind = "completion"

\* Math.floor(Date.now() / 1000) at the time the reply is handled
WallClock == {NumV(now) : now \in Nows}

\* C13 as stated: for both providers the envelope's created is the reply's
\* created member whenever that member is a number, and the wall-clock
\* time only when it is absent or not a number.
C13_ProviderTimestampPreferred ==
  Completed =>
     IF fetched.json.created.ty = "number"
     THEN response.completion.created = fetched.json.created
     ELSE response.completion.created \in WallClock

\* C13 amended: provider A's envelope carries the reply's created member
\* when it is a number and the wall-clock time otherwise; provider B's
\* envelope always carries the wall-clock time, whatever the reply holds.
C13_TimestampPerProvider ==
  Completed =>
     IF provider = "ark" /\ fetched.json.created.ty = "number"
     THEN response.completion.created = fetched.json.created
     ELSE response.completion.created \in WallClock

C13_Witness ==
  /\ Completed
  /\ provider = "siliconflow"
  /\ fetched.json.created.ty = "number"
  /\ response.completion.created \in WallClock
  /\ response.completion.created # fetched.json.created

NoMetadata == [present |-> FALSE, timings |-> Undefined, seed |-> Undefined]

\* C14 as stated: for either provider the reply's usage is the envelope's
\* usage, and the reply's timings and seed are each, independently, the
\* members of the message metadata; an absent member stays absent.
C14_MetadataPassedThrough ==
  Completed =>
     /\ response.completion.usage = fetched.json.usage
     /\ response.completion.metadata.timings = fetched.json.timings
     /\ response.completion.metadata.seed = fetched.json.seed

\* C14 amended: the envelope's usage is the reply's usage for provider A
\* and absent for provider B; the message metadata is present only for
\* provider B and only when the reply's timings is truthy, and then holds
\* the reply's timings and seed unchanged; nothing else appears.
C14_MetadataPerProvider ==
  Completed =>
     /\ response.completion.usage =
          IF provider = "ark" THEN fetched.json.usage ELSE Undefined
     /\ response.completion.metadata =
          IF provider = "siliconflow" /\ Truthy(fetched.json.timings)
          THEN [present |-> TRUE, timings |-> fetched.json.timings,
                seed |-> fetched.json.seed]
          ELSE NoMetadata

C14_Witness ==
  /\ Completed
  /\ provider = "siliconflow"
  /\ fetched.json.usage # Undefined
  /\ fetched.json.timings = Undefined
  /\ fetched.json.seed # Undefined
  /\ response.completion.usage = Undefined
  /\ response.completion.metadata = NoMetadata

====
